---- MODULE Spec2Model ----
(***************************************************************************)
(* Model of the Dutch Covid dashboard: the DataManager of preparation.py   *)
(* (refresh decision, download pipeline, persisted files, query layer) and *)
(* the PlotTemplate dimension choice and the GUI observers of dashboard.py.*)
(*                                                                         *)
(* A DataFrame is a sequence of rows (records, one field per column).      *)
(* Text that the code only compares is a TLA+ string; text that the code   *)
(* builds or transforms (str(), zfill, lower, concatenation) is a sequence *)
(* of one-character strings.                                               *)
(***************************************************************************)
EXTENDS Integers, Sequences, FiniteSets, TLC

VARIABLES
    pc,                  \* position of the modelled call
    err,                 \* exception that left the modelled call, or "none"
    \* the locals of _read_and_save_data_from_web
    raw_case_data, clean_case_data, raw_hospital_data, full_dataset,
    clean_full_dataset,
    ns_resolution,       \* the pandas build parses dates to datetime64[ns]
    \* the query layer: argument and result of aggregate_data
    filtered_df, agg_columns, agg_dimension, aggregated_df,
    \* PlotTemplate
    widget_values,       \* PlotTemplate.widget_values
    calls,               \* the calls made to DataManager.aggregate_data
    \* GUI
    active_plot,         \* "bar" or "line"
    active_observers,    \* GUI.active_observers: the tracked observer keys
    observers,           \* the handlers wired by observe(): <<widget, handler>>
    checks,              \* value of the three metric checkboxes
    event,               \* the last click or user change that was handled
    \* the environment of a DataManager
    now,                 \* the clock, in days
    net_up,              \* 8.8.8.8:53 can be reached
    files,               \* the Data folder: file name -> [rows, mtime]
    probe,               \* outcome of the reachability probe of this __init__
    downloads,           \* source downloads attempted by this __init__
    writes,              \* files written by this __init__
    unique_ran,          \* _set_unique_values was entered by this __init__
    fresh,               \* the freshness decision of this __init__, or "none"
    unique_year_values, unique_province_values,
    query,               \* the last query: [op, year, province]
    printed,             \* the diagnostics printed by the last query
    result               \* the value returned by the last query

pipeVars == <<raw_case_data, clean_case_data, raw_hospital_data, full_dataset,
              clean_full_dataset, ns_resolution>>

queryVars == <<filtered_df, agg_columns, agg_dimension, aggregated_df>>

guiVars == <<active_plot, active_observers, observers, checks, event>>

plotVars == <<widget_values, calls, guiVars>>

lifeVars == <<now, net_up, files, probe, downloads, writes, unique_ran, fresh,
              unique_year_values, unique_province_values, query, printed,
              result>>

vars == <<pc, err, pipeVars, queryVars, plotVars, lifeVars>>

-----------------------------------------------------------------------------
(* Missing values.                                                         *)

\* A missing cell of a text column (NaN in an object column).
NaN == "NaN"

\* A missing cell of a numeric column (NaN / <NA>); the counts are >= 0.
NA == -1

\* A missing date (empty cell, NaT once parsed); dates are <<year, month, day>>.
NaT == <<0, 0, 0>>

-----------------------------------------------------------------------------
(* Generic helpers.                                                        *)

SeqsUpTo(S, n) == UNION {[1..k -> S] : k \in 0..n}

RECURSIVE SumField(_, _)
\* Series.sum() of an integer column: missing cells are skipped.
SumField(df, col) ==
    IF df = <<>> THEN 0
    ELSE (IF Head(df)[col] = NA THEN 0 ELSE Head(df)[col]) + SumField(Tail(df), col)

Range(s) == {s[i] : i \in 1..Len(s)}

\* Alphabetical order of the text values that occur in the data.
Lex == <<"2021-10-03 15:00", "Brielle", "Friesland", "Fryslân", "GGD Fryslân",
         "GGD Rotterdam-Rijnmond", "GGD Utrecht", "GM0344", "GM0501", "GM0530",
         "GM0599", "GM0614", "GM1992", "Hellevoetsluis", "Leeuwarden",
         "NaN", "Netherlands", "Rotterdam", "Rotterdam-Rijnmond",
         "Traumacentrum ZWN", "Utrecht", "VR17", "Voorne aan zee",
         "Westvoorne", "Zuid-Holland">>

Rank(s) == CHOOSE i \in 1..Len(Lex) : Lex[i] = s

DateNum(dt) == dt[1] * 10000 + dt[2] * 100 + dt[3]

RECURSIVE LexLess(_, _)
\* Lexicographic order on tuples of integers (a proper prefix comes first).
LexLess(a, b) ==
    IF b = <<>> THEN FALSE
    ELSE IF a = <<>> THEN TRUE
    ELSE IF Head(a) # Head(b) THEN Head(a) < Head(b)
    ELSE LexLess(Tail(a), Tail(b))

RECURSIVE SortPairs(_)
\* The keys of the <<order, key>> pairs of P by increasing order (sort=True).
SortPairs(P) ==
    IF P = {} THEN <<>>
    ELSE LET p == CHOOSE x \in P : \A y \in P \ {x} : LexLess(x[1], y[1])
         IN  <<p[2]>> \o SortPairs(P \ {p})

-----------------------------------------------------------------------------
(* The parts of the state a specification does not use.                    *)

QueryIdle ==
    /\ filtered_df = <<>>
    /\ agg_columns = <<>>
    /\ agg_dimension = "none"
    /\ aggregated_df = <<>>

GuiIdle ==
    /\ active_plot = "none"
    /\ active_observers = {}
    /\ observers = {}
    /\ checks = <<>>
    /\ event = <<>>

PlotIdle ==
    /\ widget_values = <<>>
    /\ calls = <<>>
    /\ GuiIdle

NoQuery == [op |-> "none", year |-> <<>>, province |-> "none"]

LifeIdle ==
    /\ now = 0
    /\ net_up = TRUE
    /\ files = <<>>
    /\ probe = "none"
    /\ downloads = 0
    /\ writes = 0
    /\ unique_ran = FALSE
    /\ fresh = "none"
    /\ query = NoQuery
    /\ unique_year_values = <<>>
    /\ unique_province_values = <<>>
    /\ printed = <<>>
    /\ result = <<>>

-----------------------------------------------------------------------------
(* DataManager._clean_case_data                                            *)

old_municipalities == {"Brielle", "Hellevoetsluis", "Westvoorne"}

IsOld(r) == r.Municipality_name \in old_municipalities

\* The sentinel of a suppressed Deceased count.
Sentinel == 9999

\* The groupby key of a case row.
GroupKey(r) ==
    <<r.Version, r.Date_of_report, r.Date_of_publication, r.Province,
      r.Security_region_code, r.Security_region_name,
      r.Municipal_health_service, r.ROAZ_region>>

\* groupby(dropna=True): a row with a missing key column is in no group.
KeyHasNull(k) ==
    \/ k[1] = NA
    \/ k[3] = NaT
    \/ \E i \in {2, 4, 5, 6, 7, 8} : k[i] = NaN

GroupKeyOrd(k) ==
    <<k[1], Rank(k[2]), DateNum(k[3]), Rank(k[4]), Rank(k[5]), Rank(k[6]),
      Rank(k[7]), Rank(k[8])>>

\* One row of grouped_df, relabelled as the merged municipality.
GroupedRow(old_df, k) ==
    LET members == SelectSeq(old_df, LAMBDA r : GroupKey(r) = k)
    IN  [Version |-> k[1], Date_of_report |-> k[2], Date_of_publication |-> k[3],
         Province |-> k[4], Security_region_code |-> k[5],
         Security_region_name |-> k[6], Municipal_health_service |-> k[7],
         ROAZ_region |-> k[8],
         Total_reported |-> SumField(members, "Total_reported"),
         Deceased |-> SumField(members, "Deceased"),
         Municipality_code |-> "GM1992",
         Municipality_name |-> "Voorne aan zee"]

grouped_df(case_df) ==
    LET old_municipality_df == SelectSeq(case_df, IsOld)
        keys == {GroupKey(old_municipality_df[i]) :
                     i \in 1..Len(old_municipality_df)}
        kept == {k \in keys : ~KeyHasNull(k)}
        order == SortPairs({<<GroupKeyOrd(k), k>> : k \in kept})
    IN  [i \in 1..Len(order) |-> GroupedRow(old_municipality_df, order[i])]

\* np.where(Deceased == 9999, 0, Deceased), row by row.
ResetDeceased(df) ==
    [i \in 1..Len(df) |->
        [df[i] EXCEPT !.Deceased = IF @ = Sentinel THEN 0 ELSE @]]

_clean_case_data(case_df) ==
    ResetDeceased(SelectSeq(case_df, LAMBDA r : ~IsOld(r)) \o grouped_df(case_df))

-----------------------------------------------------------------------------
(* Raw case tables of the clean-case specification.                        *)

MaxCaseRows == 2

CaseRow(name, code, date, prov, tr, dec) ==
    [Version |-> 2, Date_of_report |-> "2021-10-03 15:00",
     Date_of_publication |-> date, Province |-> prov,
     Security_region_code |-> "VR17",
     Security_region_name |-> "Rotterdam-Rijnmond",
     Municipal_health_service |-> "GGD Rotterdam-Rijnmond",
     ROAZ_region |-> "Traumacentrum ZWN",
     Municipality_code |-> code, Municipality_name |-> name,
     Total_reported |-> tr, Deceased |-> dec]

CleanMunicipalities ==
    {<<"Brielle", "GM0501">>, <<"Hellevoetsluis", "GM0530">>,
     <<"Westvoorne", "GM0614">>, <<"Rotterdam", "GM0599">>}

CleanDates == {<<2021, 3, 1>>, <<2021, 3, 2>>}

CleanCounts == {<<5, 9999>>, <<3, 1>>, <<2, 9998>>}

CleanCaseRows ==
    {CaseRow(m[1], m[2], d, p, c[1], c[2]) :
        m \in CleanMunicipalities, d \in CleanDates,
        p \in {"Zuid-Holland", NaN}, c \in CleanCounts}

InitClean ==
    /\ pc = "clean_case"
    /\ raw_case_data \in SeqsUpTo(CleanCaseRows, MaxCaseRows)
    /\ clean_case_data = <<>>
    /\ raw_hospital_data = <<>>
    /\ full_dataset = <<>>
    /\ clean_full_dataset = <<>>
    /\ ns_resolution = TRUE
    /\ err = "none"
    /\ QueryIdle /\ PlotIdle /\ LifeIdle

CleanCaseData ==
    /\ pc = "clean_case"
    /\ clean_case_data' = _clean_case_data(raw_case_data)
    /\ pc' = "cleaned"
    /\ UNCHANGED <<raw_case_data, raw_hospital_data, full_dataset,
                   clean_full_dataset, ns_resolution, err>>
    /\ UNCHANGED <<queryVars, plotVars, lifeVars>>

NextClean == CleanCaseData

SpecClean == InitClean /\ [][NextClean]_vars

-----------------------------------------------------------------------------
(* Claims about _clean_case_data (specification SpecClean).                *)

Cleaned == pc = "cleaned"

\* The rows of the raw table that are merged into the group of key k.
LegacyMembers(k) ==
    SelectSeq(raw_case_data, LAMBDA r : IsOld(r) /\ GroupKey(r) = k)

LegacyKeys ==
    {GroupKey(raw_case_data[i]) :
        i \in {j \in 1..Len(raw_case_data) : IsOld(raw_case_data[j])}}

\* The rows of the repaired table that carry the merged municipality for key k.
VoorneRows(k) ==
    SelectSeq(clean_case_data,
              LAMBDA o : /\ o.Municipality_code = "GM1992"
                         /\ o.Municipality_name = "Voorne aan zee"
                         /\ GroupKey(o) = k)

C1_Scenario ==
    <<CaseRow("Brielle", "GM0501", <<2021, 3, 1>>, "Zuid-Holland", 5, 9999),
      CaseRow("Hellevoetsluis", "GM0530", <<2021, 3, 1>>, "Zuid-Holland", 3, 1)>>

\* C1: when legacy rows of one group key are merged and one of them carries
\* the suppressed sentinel Deceased = 9999, the merged 'Voorne aan zee' row has
\* Deceased = 0; for the rows {Brielle: 5, 9999}, {Hellevoetsluis: 3, 1} the
\* output is the single row {Voorne aan zee: Total_reported = 8, Deceased = 0}.
C1_SentinelNotSummed ==
    Cleaned =>
        /\ \A k \in LegacyKeys :
              (\E i \in 1..Len(LegacyMembers(k)) :
                    LegacyMembers(k)[i].Deceased = Sentinel)
              => \A j \in 1..Len(VoorneRows(k)) : VoorneRows(k)[j].Deceased = 0
        /\ raw_case_data = C1_Scenario =>
              /\ Len(clean_case_data) = 1
              /\ clean_case_data[1].Municipality_name = "Voorne aan zee"
              /\ clean_case_data[1].Total_reported = 8
              /\ clean_case_data[1].Deceased = 0

\* The Deceased value the repaired table holds for raw row i: the row itself
\* for a municipality that is kept, the merged row of its group otherwise.
DeceasedHeldFor(i) ==
    LET r == raw_case_data[i]
    IN  IF IsOld(r)
        THEN {VoorneRows(GroupKey(r))[j].Deceased :
                  j \in 1..Len(VoorneRows(GroupKey(r)))}
        ELSE {clean_case_data[j].Deceased :
                  j \in {n \in 1..Len(clean_case_data) :
                            [clean_case_data[n] EXCEPT !.Deceased = r.Deceased] = r}}

\* C2: every raw row whose Deceased is 9999 has Deceased = 0 in the repaired
\* table, and a row outside the three legacy municipalities whose Deceased is
\* not 9999 is in the repaired table unchanged.
C2_SentinelBecomesZero ==
    Cleaned =>
        \A i \in 1..Len(raw_case_data) :
            LET r == raw_case_data[i]
            IN  /\ r.Deceased = Sentinel => DeceasedHeldFor(i) \subseteq {0}
                /\ (~IsOld(r) /\ r.Deceased # Sentinel) => r \in Range(clean_case_data)
                /\ ~IsOld(r) => DeceasedHeldFor(i) # {}

\* C3: for every group of legacy rows sharing the eight grouping columns the
\* repaired table holds exactly one 'GM1992' / 'Voorne aan zee' row whose
\* Total_reported and Deceased are the sums over the group, no row keeps a
\* legacy name, and no legacy row is lost (a missing grouping column included).
C3_LegacyMergedBySum ==
    Cleaned =>
        /\ \A k \in LegacyKeys :
              /\ Len(VoorneRows(k)) = 1
              /\ VoorneRows(k)[1].Total_reported =
                    SumField(LegacyMembers(k), "Total_reported")
              /\ VoorneRows(k)[1].Deceased = SumField(LegacyMembers(k), "Deceased")
        /\ \A j \in 1..Len(clean_case_data) : ~IsOld(clean_case_data[j])

\* The parts of C1-C3 the code does satisfy, kept as regression checks of the
\* model: legacy names never survive, a kept municipality's row only has its
\* sentinel reset, and a group without missing key columns is merged by sum
\* (a sum of exactly 9999 being reset to 0 afterwards).
CleanCaseBehaviour ==
    Cleaned =>
        /\ \A j \in 1..Len(clean_case_data) : ~IsOld(clean_case_data[j])
        /\ \A i \in 1..Len(raw_case_data) :
              ~IsOld(raw_case_data[i]) =>
                  [raw_case_data[i] EXCEPT
                      !.Deceased = IF @ = Sentinel THEN 0 ELSE @]
                  \in Range(clean_case_data)
        /\ \A k \in LegacyKeys :
              IF KeyHasNull(k) THEN Len(VoorneRows(k)) = 0
              ELSE /\ Len(VoorneRows(k)) = 1
                   /\ VoorneRows(k)[1].Total_reported =
                         SumField(LegacyMembers(k), "Total_reported")
                   /\ VoorneRows(k)[1].Deceased =
                         (IF SumField(LegacyMembers(k), "Deceased") = Sentinel
                          THEN 0 ELSE SumField(LegacyMembers(k), "Deceased"))

-----------------------------------------------------------------------------
(* DataManager._clean_hospital_data and DataManager._merge_data            *)

_clean_hospital_data(hospital_df) == hospital_df

\* DataFrame.rename(columns={'Date_of_publication': 'Date_of_statistics'}).
RenameDate(r) ==
    [c \in (DOMAIN r \ {"Date_of_publication"}) \cup {"Date_of_statistics"} |->
        IF c = "Date_of_statistics" THEN r.Date_of_publication ELSE r[c]]

RenamedCase(case_df) == [i \in 1..Len(case_df) |-> RenameDate(case_df[i])]

\* hospital_df[['Date_of_statistics', 'Municipality_code', 'Hospital_admission']]
HospitalColumns(hospital_df) ==
    [i \in 1..Len(hospital_df) |->
        [c \in {"Date_of_statistics", "Municipality_code", "Hospital_admission"} |->
            hospital_df[i][c]]]

MergeKey(r) == <<r.Date_of_statistics, r.Municipality_code>>

\* The rows a left row yields in a left join: one per right row of its key, in
\* the right table's order, or one with a missing admission when there is none.
JoinedRows(left, right) ==
    LET matches == SelectSeq(right, LAMBDA h : MergeKey(h) = MergeKey(left))
    IN  IF matches = <<>>
        THEN <<left @@ [Hospital_admission |-> NA]>>
        ELSE [j \in 1..Len(matches) |->
                 left @@ [Hospital_admission |-> matches[j].Hospital_admission]]

RECURSIVE MergeLeft(_, _)
\* pd.merge(left, right, on=[Date_of_statistics, Municipality_code], how='left')
MergeLeft(left_df, right_df) ==
    IF left_df = <<>> THEN <<>>
    ELSE JoinedRows(Head(left_df), right_df) \o MergeLeft(Tail(left_df), right_df)

_merge_data(case_df, hospital_df) ==
    MergeLeft(RenamedCase(case_df), HospitalColumns(hospital_df))

-----------------------------------------------------------------------------
(* Repaired case tables and hospital tables of the merge specification.    *)

MaxMergeCaseRows == 2

MaxHospRows == 2

HospRow(name, code, date, adm) ==
    [Version |-> 1, Date_of_report |-> "2021-10-03 15:00",
     Date_of_statistics |-> date, Municipality_code |-> code,
     Municipality_name |-> name, Security_region_code |-> "VR17",
     Security_region_name |-> "Rotterdam-Rijnmond",
     Hospital_admission |-> adm]

MergeCaseRows ==
    {CaseRow(m[1], m[2], d, "Zuid-Holland", 3, 1) :
        m \in {<<"Rotterdam", "GM0599">>, <<"Voorne aan zee", "GM1992">>},
        d \in CleanDates}

MergeHospRows ==
    {HospRow(m[1], m[2], d, a) :
        m \in {<<"Rotterdam", "GM0599">>, <<"Voorne aan zee", "GM1992">>,
               <<"Utrecht", "GM0344">>},
        d \in CleanDates, a \in {1, 2}}

InitMerge ==
    /\ pc = "merge"
    /\ raw_case_data = <<>>
    /\ clean_case_data \in SeqsUpTo(MergeCaseRows, MaxMergeCaseRows)
    /\ raw_hospital_data \in SeqsUpTo(MergeHospRows, MaxHospRows)
    /\ full_dataset = <<>>
    /\ clean_full_dataset = <<>>
    /\ ns_resolution = TRUE
    /\ err = "none"
    /\ QueryIdle /\ PlotIdle /\ LifeIdle

\* The rename is in place: the caller's case table is renamed as well.
MergeData ==
    /\ pc = "merge"
    /\ full_dataset' =
          _merge_data(clean_case_data, _clean_hospital_data(raw_hospital_data))
    /\ clean_case_data' = RenamedCase(clean_case_data)
    /\ pc' = "merged"
    /\ UNCHANGED <<raw_case_data, raw_hospital_data, clean_full_dataset,
                   ns_resolution, err>>
    /\ UNCHANGED <<queryVars, plotVars, lifeVars>>

NextMerge == MergeData

SpecMerge == InitMerge /\ [][NextMerge]_vars

Merged == pc = "merged"

HospitalKeys == {MergeKey(raw_hospital_data[i]) : i \in 1..Len(raw_hospital_data)}

\* C4: for any repaired case table and any hospitalization table (a key may
\* occur more than once in it) the merged table has exactly as many rows as
\* the case table; a case row without a hospital row appears once with a
\* missing Hospital_admission and a hospital row without a case row not at all.
C4_MergeKeepsRowCount ==
    Merged =>
        /\ Len(full_dataset) = Len(clean_case_data)
        /\ \A i \in 1..Len(clean_case_data) :
              MergeKey(clean_case_data[i]) \notin HospitalKeys =>
                  Cardinality({j \in 1..Len(full_dataset) :
                      full_dataset[j] =
                          clean_case_data[i] @@ [Hospital_admission |-> NA]}) >= 1
        /\ \A j \in 1..Len(full_dataset) :
              \E i \in 1..Len(clean_case_data) :
                  MergeKey(full_dataset[j]) = MergeKey(clean_case_data[i])

\* What the left join does guarantee: every case row yields one merged row per
\* hospital row of its key, and one row when there is none.
MergeBehaviour ==
    Merged =>
        /\ Len(full_dataset) >= Len(clean_case_data)
        /\ \A j \in 1..Len(full_dataset) :
              \E i \in 1..Len(clean_case_data) :
                  /\ MergeKey(full_dataset[j]) = MergeKey(clean_case_data[i])
                  /\ \A c \in DOMAIN clean_case_data[i] :
                        full_dataset[j][c] = clean_case_data[i][c]
        /\ (\A i, j \in 1..Len(raw_hospital_data) :
                MergeKey(raw_hospital_data[i]) = MergeKey(raw_hospital_data[j])
                    => i = j)
           => Len(full_dataset) = Len(clean_case_data)

-----------------------------------------------------------------------------
(* Dates and text, as pandas computes them in _clean_merged_data.          *)

\* A parsed date is a day number, the days since 1970-01-01.
DaysFromCivil(y, m, d) ==
    LET yy  == IF m <= 2 THEN y - 1 ELSE y
        era == yy \div 400
        yoe == yy - era * 400
        mp  == IF m > 2 THEN m - 3 ELSE m + 9
        doy == (153 * mp + 2) \div 5 + d - 1
        doe == yoe * 365 + yoe \div 4 - yoe \div 100 + doy
    IN  era * 146097 + doe - 719468

CivilFromDays(z) ==
    LET zz  == z + 719468
        era == zz \div 146097
        doe == zz - era * 146097
        yoe == (doe - doe \div 1460 + doe \div 36524 - doe \div 146096) \div 365
        doy == doe - (365 * yoe + yoe \div 4 - yoe \div 100)
        mp  == (5 * doy + 2) \div 153
        d   == doy - (153 * mp + 2) \div 5 + 1
        m   == IF mp < 10 THEN mp + 3 ELSE mp - 9
        y   == yoe + era * 400
    IN  <<IF m <= 2 THEN y + 1 ELSE y, m, d>>

\* The parsed form of a missing date (pandas iNaT, below every day number).
iNaT == -9999999

IsLeap(y) == (y % 4 = 0 /\ y % 100 # 0) \/ y % 400 = 0

DaysInMonth(y, m) ==
    IF m = 2 THEN (IF IsLeap(y) THEN 29 ELSE 28)
    ELSE IF m \in {4, 6, 9, 11} THEN 30 ELSE 31

\* A date text that names a day of the calendar, years 0001 to 9999.
IsValidDate(dt) ==
    /\ dt[1] \in 1..9999
    /\ dt[2] \in 1..12
    /\ dt[3] \in 1..DaysInMonth(dt[1], dt[2])

\* The dates datetime64[ns] can hold: 1677-09-22 to 2262-04-11.
InNsBounds(dt) == DateNum(dt) >= 16770922 /\ DateNum(dt) <= 22620411

\* The exception pd.to_datetime raises on a cell, or "none".
ToDatetimeError(dt, ns) ==
    IF dt = NaT THEN "none"
    ELSE IF ~IsValidDate(dt) THEN "ValueError"
    ELSE IF ns /\ ~InNsBounds(dt) THEN "OutOfBoundsDatetime"
    ELSE "none"

to_datetime(dt) == IF dt = NaT THEN iNaT ELSE DaysFromCivil(dt[1], dt[2], dt[3])

\* Series.dt.year and Series.dt.month (NA for a missing date).
DtYear(t) == IF t = iNaT THEN NA ELSE CivilFromDays(t)[1]

DtMonth(t) == IF t = iNaT THEN NA ELSE CivilFromDays(t)[2]

\* 1 = Monday .. 7 = Sunday (1970-01-01 was a Thursday).
IsoWeekday(t) == ((t + 3) % 7) + 1

DayOfYear(t) == t - DaysFromCivil(CivilFromDays(t)[1], 1, 1) + 1

\* The number of ISO weeks of year y.
IsoWeeksInYear(y) ==
    LET P(n) == (n + n \div 4 - n \div 100 + n \div 400) % 7
    IN  IF P(y) = 4 \/ P(y - 1) = 3 THEN 53 ELSE 52

\* Series.dt.isocalendar().week (NA for a missing date).
DtIsoWeek(t) ==
    IF t = iNaT THEN NA
    ELSE LET y == CivilFromDays(t)[1]
             w == (DayOfYear(t) - IsoWeekday(t) + 10) \div 7
         IN  IF w < 1 THEN IsoWeeksInYear(y - 1)
             ELSE IF w > IsoWeeksInYear(y) THEN 1
             ELSE w

DigitChars == <<"0", "1", "2", "3", "4", "5", "6", "7", "8", "9">>

RECURSIVE IntToStr(_)
\* str() of a non-negative integer.
IntToStr(n) ==
    IF n < 10 THEN <<DigitChars[n + 1]>>
    ELSE IntToStr(n \div 10) \o <<DigitChars[(n % 10) + 1]>>

\* astype(str) of a cell of an int32 column, or of a float64 column (the
\* dtype of dt.year / dt.month once the column holds a missing date).
NumToStr(v, is_float) ==
    IF ~is_float THEN IntToStr(v)
    ELSE IF v = NA THEN <<"n", "a", "n">>
    ELSE IntToStr(v) \o <<".", "0">>

\* astype(str) of a cell of the nullable UInt32 column isocalendar().week.
UIntToStr(v) == IF v = NA THEN <<"<", "N", "A", ">">> ELSE IntToStr(v)

RECURSIVE zfill(_, _)
\* str.zfill(width): zeros on the left up to the width.
zfill(str, width) ==
    IF Len(str) >= width THEN str ELSE zfill(<<"0">> \o str, width)

-----------------------------------------------------------------------------
(* DataManager._clean_merged_data                                          *)

\* DataFrame.replace({'Fryslân': 'Friesland'}) on one cell.
ReplaceFryslan(v) == IF v = "Fryslân" THEN "Friesland" ELSE v

\* Lines 135-136: the replacement in two columns, then the two columns dropped.
ReplacedAndDropped(merged_df) ==
    [i \in 1..Len(merged_df) |->
        [c \in DOMAIN merged_df[i] \ {"Version", "Date_of_report"} |->
            IF c \in {"Province", "Security_region_name"}
            THEN ReplaceFryslan(merged_df[i][c])
            ELSE merged_df[i][c]]]

\* The exception of line 137 on the table, or "none".
MergedDateError(merged_df, ns) ==
    LET errs == {ToDatetimeError(merged_df[i].Date_of_statistics, ns) :
                     i \in 1..Len(merged_df)} \ {"none"}
    IN  IF errs = {} THEN "none" ELSE CHOOSE e \in errs : TRUE

\* dt.year and dt.month are float64 as soon as one date of the column is NaT.
HasMissingDate(merged_df) ==
    \E i \in 1..Len(merged_df) : merged_df[i].Date_of_statistics = NaT

NormalizedRow(r, is_float) ==
    LET t     == to_datetime(r.Date_of_statistics)
        year  == DtYear(t)
        month == DtMonth(t)
        week  == DtIsoWeek(t)
    IN  [r EXCEPT !.Date_of_statistics = t] @@
        [Year_of_statistics |-> year,
         Month_of_statistics |-> month,
         Week_of_statistics |-> week,
         Isomonth_of_statistics |->
             NumToStr(year, is_float) \o zfill(NumToStr(month, is_float), 2),
         Isoweek_of_statistics |->
             NumToStr(year, is_float) \o zfill(UIntToStr(week), 2),
         Country |-> "Netherlands"]

_clean_merged_data(merged_df) ==
    LET df == ReplacedAndDropped(merged_df)
    IN  [i \in 1..Len(df) |-> NormalizedRow(df[i], HasMissingDate(df))]

-----------------------------------------------------------------------------
(* Merged tables of the normalizer specification.                          *)

MaxNormRows == 2

MergedRow(date, prov) ==
    [RenameDate(CaseRow("Leeuwarden", "GM0080", date, prov, 3, 1)) @@
     [Hospital_admission |-> 2]
     EXCEPT !.Security_region_code = "VR02", !.Security_region_name = prov,
            !.Municipal_health_service = "GGD Fryslân",
            !.ROAZ_region = "Acute Zorgnetwerk Noord Nederland"]

NormDates ==
    {NaT, <<2021, 3, 1>>, <<2021, 1, 3>>, <<2020, 12, 31>>, <<2021, 10, 4>>,
     <<999, 12, 31>>, <<1, 1, 1>>, <<9999, 12, 31>>}

NormRows ==
    {MergedRow(d, p) : d \in NormDates, p \in {"Fryslân", "Zuid-Holland"}}

InitNorm ==
    /\ pc = "clean_merged"
    /\ raw_case_data = <<>>
    /\ clean_case_data = <<>>
    /\ raw_hospital_data = <<>>
    /\ full_dataset \in SeqsUpTo(NormRows, MaxNormRows)
    /\ clean_full_dataset = <<>>
    /\ ns_resolution \in BOOLEAN
    /\ err = "none"
    /\ QueryIdle /\ PlotIdle /\ LifeIdle

\* merged_df is changed in place: the caller's table is the returned one, and
\* an exception of line 137 leaves it with lines 135-136 applied.
CleanMergedData ==
    /\ pc = "clean_merged"
    /\ LET e == MergedDateError(full_dataset, ns_resolution)
       IN  IF e = "none"
           THEN /\ clean_full_dataset' = _clean_merged_data(full_dataset)
                /\ full_dataset' = clean_full_dataset'
                /\ pc' = "normalized"
                /\ err' = "none"
           ELSE /\ full_dataset' = ReplacedAndDropped(full_dataset)
                /\ pc' = "raised"
                /\ err' = e
                /\ UNCHANGED clean_full_dataset
    /\ UNCHANGED <<raw_case_data, clean_case_data, raw_hospital_data,
                   ns_resolution>>
    /\ UNCHANGED <<queryVars, plotVars, lifeVars>>

NextNorm == CleanMergedData

SpecNorm == InitNorm /\ [][NextNorm]_vars

Normalized == pc = "normalized"

IsDigits(str) == \A i \in 1..Len(str) : \E n \in 1..10 : str[i] = DigitChars[n]

\* The decimal digits of n, zero-padded to w characters.
Padded(n, w) == zfill(IntToStr(n), w)

NormalizeBehaviour ==
    Normalized =>
        /\ Len(clean_full_dataset) = Len(full_dataset)
        /\ \A i \in 1..Len(clean_full_dataset) :
              LET r == clean_full_dataset[i]
              IN  /\ r.Country = "Netherlands"
                  /\ r.Province # "Fryslân"
                  /\ (r.Date_of_statistics # iNaT /\ r.Year_of_statistics >= 1000
                        /\ \A j \in 1..Len(clean_full_dataset) :
                              clean_full_dataset[j].Date_of_statistics # iNaT)
                     => /\ Len(r.Isomonth_of_statistics) = 6
                        /\ Len(r.Isoweek_of_statistics) = 6
                        /\ IsDigits(r.Isomonth_of_statistics)
                        /\ IsDigits(r.Isoweek_of_statistics)

\* Known calendar facts, to check the date arithmetic itself.
CalendarFacts ==
    /\ DaysFromCivil(1970, 1, 1) = 0
    /\ CivilFromDays(DaysFromCivil(2021, 3, 1)) = <<2021, 3, 1>>
    /\ CivilFromDays(DaysFromCivil(1, 1, 1)) = <<1, 1, 1>>
    /\ CivilFromDays(DaysFromCivil(9999, 12, 31)) = <<9999, 12, 31>>
    /\ CivilFromDays(DaysFromCivil(2020, 2, 29)) = <<2020, 2, 29>>
    /\ DtIsoWeek(DaysFromCivil(2021, 1, 3)) = 53
    /\ DtIsoWeek(DaysFromCivil(2021, 1, 4)) = 1
    /\ DtIsoWeek(DaysFromCivil(2020, 12, 31)) = 53
    /\ DtIsoWeek(DaysFromCivil(2021, 3, 1)) = 9
    /\ DtIsoWeek(DaysFromCivil(2019, 12, 30)) = 1
    /\ DtIsoWeek(DaysFromCivil(2021, 10, 4)) = 40
    /\ IsoWeekday(DaysFromCivil(2021, 3, 1)) = 1
    /\ IsoWeekday(DaysFromCivil(1, 1, 1)) = 1

-----------------------------------------------------------------------------
(* DataManager.aggregate_data                                              *)

NumericColumns ==
    {"Total_reported", "Hospital_admission", "Deceased", "Year_of_statistics",
     "Month_of_statistics", "Week_of_statistics"}

IsNull(col, v) == IF col \in NumericColumns THEN v = NA ELSE v = NaN

ColumnOrd(col, v) == IF col \in NumericColumns THEN <<v>> ELSE <<Rank(v)>>

\* The group keys of groupby(col): the values of the column in increasing
\* order, a missing value being no key (dropna=True).
GroupValues(df, col) ==
    LET vals == {df[i][col] : i \in 1..Len(df)}
    IN  SortPairs({<<ColumnOrd(col, v), v>> : v \in {x \in vals : ~IsNull(col, x)}})

aggregate_data(df, columns_to_aggregate, column_to_aggregate_on) ==
    LET keys == GroupValues(df, column_to_aggregate_on)
    IN  [i \in 1..Len(keys) |->
            [c \in {column_to_aggregate_on} \cup Range(columns_to_aggregate) |->
                IF c = column_to_aggregate_on THEN keys[i]
                ELSE SumField(SelectSeq(df,
                         LAMBDA r : r[column_to_aggregate_on] = keys[i]), c)]]

-----------------------------------------------------------------------------
(* Filtered tables of the aggregation specification.                       *)

MaxAggRows == 2

Dimensions == {"Country", "Province", "Municipality_name", "Month_of_statistics"}

\* The metric lists the plots pass, in the order plot() appends them.
MetricLists ==
    {<<"Total_reported">>, <<"Hospital_admission">>, <<"Deceased">>,
     <<"Total_reported", "Hospital_admission">>, <<"Total_reported", "Deceased">>,
     <<"Hospital_admission", "Deceased">>,
     <<"Total_reported", "Hospital_admission", "Deceased">>}

AggRow(prov, name, month, tr, adm, dec) ==
    [Country |-> "Netherlands", Province |-> prov, Municipality_name |-> name,
     Year_of_statistics |-> 2021, Month_of_statistics |-> month,
     Total_reported |-> tr, Hospital_admission |-> adm, Deceased |-> dec]

AggRows ==
    {AggRow(pl[1], pl[2], m, c[1], c[2], c[3]) :
        pl \in {<<"Zuid-Holland", "Rotterdam">>, <<"Utrecht", "Utrecht">>,
                <<"Zuid-Holland", NaN>>, <<NaN, NaN>>},
        m \in {3, NA},
        c \in {<<3, 2, 1>>, <<5, NA, 0>>}}

InitAgg ==
    /\ pc = "aggregate"
    /\ err = "none"
    /\ raw_case_data = <<>>
    /\ clean_case_data = <<>>
    /\ raw_hospital_data = <<>>
    /\ full_dataset = <<>>
    /\ clean_full_dataset = <<>>
    /\ ns_resolution = TRUE
    /\ filtered_df \in SeqsUpTo(AggRows, MaxAggRows)
    /\ agg_columns = <<>>
    /\ agg_dimension = "none"
    /\ aggregated_df = <<>>
    /\ PlotIdle /\ LifeIdle

AggregateData ==
    /\ pc = "aggregate"
    /\ \E columns \in MetricLists, dimension \in Dimensions :
          /\ agg_columns' = columns
          /\ agg_dimension' = dimension
          /\ aggregated_df' = aggregate_data(filtered_df, columns, dimension)
    /\ pc' = "aggregated"
    /\ UNCHANGED <<err, pipeVars, filtered_df, plotVars, lifeVars>>

NextAgg == AggregateData

SpecAgg == InitAgg /\ [][NextAgg]_vars

Aggregated == pc = "aggregated"

AggregateBehaviour ==
    Aggregated =>
        LET present == SelectSeq(filtered_df,
                           LAMBDA r : ~IsNull(agg_dimension, r[agg_dimension]))
        IN  /\ \A i \in 1..Len(agg_columns) :
                  SumField(aggregated_df, agg_columns[i]) =
                      SumField(present, agg_columns[i])
            /\ Len(aggregated_df) =
                  Cardinality({present[i][agg_dimension] : i \in 1..Len(present)})
            /\ \A i, j \in 1..Len(aggregated_df) :
                  i < j => LexLess(
                      ColumnOrd(agg_dimension, aggregated_df[i][agg_dimension]),
                      ColumnOrd(agg_dimension, aggregated_df[j][agg_dimension]))

-----------------------------------------------------------------------------
(* PlotTemplate.aggregate_data                                             *)

\* The broken precedence a swapped elif pair would give.
AggregationDimensionMonthFirst(wv) ==
    IF wv.province = "Netherlands" /\ wv.month = FALSE THEN "Country"
    ELSE IF wv.month THEN "Month_of_statistics"
    ELSE IF wv.municipality THEN "Municipality_name"
    ELSE "Province"

\* The dimension of the call the if / elif chain of lines 400-407 makes.
AggregationDimension(wv) ==
    IF wv.province = "Netherlands" /\ wv.month = FALSE THEN "Country"
    ELSE IF wv.municipality THEN "Municipality_name"
    ELSE IF wv.month THEN "Month_of_statistics"
    ELSE "Province"

WidgetValues ==
    {[year |-> "Alltime", province |-> p, total_reported |-> TRUE,
      hospital_admission |-> TRUE, deceased |-> TRUE, municipality |-> mu,
      month |-> mo, sort_by |-> "Total_reported", sort_order |-> "Ascending",
      sort_data |-> FALSE, date_format |-> f] :
        p \in {"Netherlands", "All provinces", "Utrecht"},
        mu \in BOOLEAN, mo \in BOOLEAN,
        f \in {"Date_of_statistics", "Isoweek_of_statistics",
               "Isomonth_of_statistics"}}

MaxPlotRows == 1

PlotRows ==
    {AggRow("Utrecht", "Utrecht", 3, 3, 2, 1), AggRow("Utrecht", NaN, 4, 5, NA, 0)}

InitPlot ==
    /\ pc = "plot_aggregate"
    /\ err = "none"
    /\ raw_case_data = <<>>
    /\ clean_case_data = <<>>
    /\ raw_hospital_data = <<>>
    /\ full_dataset = <<>>
    /\ clean_full_dataset = <<>>
    /\ ns_resolution = TRUE
    /\ filtered_df \in SeqsUpTo(PlotRows, MaxPlotRows)
    /\ agg_columns = <<>>
    /\ agg_dimension = "none"
    /\ aggregated_df = <<>>
    /\ widget_values \in WidgetValues
    /\ calls = <<>>
    /\ GuiIdle
    /\ LifeIdle

\* PlotTemplate.aggregate_data(filtered_df, metrics_to_aggregate): one call of
\* the data manager's aggregate_data, whose result is returned.
PlotAggregateData ==
    /\ pc = "plot_aggregate"
    /\ \E metrics_to_aggregate \in MetricLists :
          LET dimension == AggregationDimension(widget_values)
          IN  /\ calls' = Append(calls, [columns |-> metrics_to_aggregate,
                                         dimension |-> dimension])
              /\ agg_columns' = metrics_to_aggregate
              /\ agg_dimension' = dimension
              /\ aggregated_df' =
                    aggregate_data(filtered_df, metrics_to_aggregate, dimension)
    /\ pc' = "plot_aggregated"
    /\ UNCHANGED <<err, pipeVars, filtered_df, widget_values, guiVars,
                   lifeVars>>

NextPlot == PlotAggregateData

SpecPlot == InitPlot /\ [][NextPlot]_vars

PlotAggregated == pc = "plot_aggregated"

\* C10: for every province selection and every setting of the municipality and
\* month toggles, PlotTemplate.aggregate_data calls the data manager's
\* aggregate exactly once, with one dimension: Country if the province is
\* 'Netherlands' and month is off; otherwise Municipality_name if municipality
\* is on; otherwise Month_of_statistics if month is on; otherwise Province.
C10_DimensionPrecedence ==
    PlotAggregated =>
        LET national == widget_values.province = "Netherlands"
                            /\ ~widget_values.month
        IN  /\ Len(calls) = 1
            /\ calls[1].dimension \in Dimensions
            /\ national => calls[1].dimension = "Country"
            /\ (~national /\ widget_values.municipality)
                  => calls[1].dimension = "Municipality_name"
            /\ (~national /\ ~widget_values.municipality /\ widget_values.month)
                  => calls[1].dimension = "Month_of_statistics"
            /\ (~national /\ ~widget_values.municipality /\ ~widget_values.month)
                  => calls[1].dimension = "Province"

\* Both toggles are set and the call went to Municipality_name.
C10_BothTogglesWitness ==
    /\ PlotAggregated
    /\ widget_values.municipality /\ widget_values.month
    /\ widget_values.province = "Netherlands"
    /\ Len(calls) = 1
    /\ calls[1].dimension = "Municipality_name"

-----------------------------------------------------------------------------
(* The persisted files: _save_clean_data, to_csv and read_csv.             *)

UpperChars == <<"A", "B", "C", "D", "E", "F", "G", "H", "I", "J", "K", "L", "M",
                "N", "O", "P", "Q", "R", "S", "T", "U", "V", "W", "X", "Y", "Z">>

LowerChars == <<"a", "b", "c", "d", "e", "f", "g", "h", "i", "j", "k", "l", "m",
                "n", "o", "p", "q", "r", "s", "t", "u", "v", "w", "x", "y", "z">>

\* str.lower()
Lower(str) ==
    [i \in 1..Len(str) |->
        IF \E n \in 1..26 : UpperChars[n] = str[i]
        THEN LowerChars[CHOOSE n \in 1..26 : UpperChars[n] = str[i]]
        ELSE str[i]]

\* f'covid_{year}.csv' in the Data folder.
FileName(year_text) ==
    <<"c", "o", "v", "i", "d", "_">> \o year_text \o <<".", "c", "s", "v">>

AlltimeFile == FileName(<<"a", "l", "l", "t", "i", "m", "e">>)

\* DataFrame.to_csv: a parsed date is written as its date text; the other
\* cells are written as they print.
to_csv(df) ==
    [i \in 1..Len(df) |->
        [df[i] EXCEPT !.Date_of_statistics =
            IF @ = iNaT THEN NaT ELSE CivilFromDays(@)]]

RECURSIVE StrToInt(_)
StrToInt(str) ==
    IF str = <<>> THEN 0
    ELSE 10 * StrToInt(SubSeq(str, 1, Len(str) - 1))
         + ((CHOOSE n \in 1..10 : DigitChars[n] = str[Len(str)]) - 1)

\* pd.read_csv: a text column whose cells are all digits is read as integers;
\* the date text is not parsed again.
read_csv(rows) ==
    LET Numeric(col) == \A i \in 1..Len(rows) : IsDigits(rows[i][col])
        Cell(i, col) == IF Numeric(col) THEN StrToInt(rows[i][col])
                        ELSE rows[i][col]
    IN  [i \in 1..Len(rows) |->
            [rows[i] EXCEPT
                !.Isomonth_of_statistics = Cell(i, "Isomonth_of_statistics"),
                !.Isoweek_of_statistics = Cell(i, "Isoweek_of_statistics")]]

\* Year_of_statistics is a float64 column as soon as one year is missing.
YearIsFloat(df) == \E i \in 1..Len(df) : df[i].Year_of_statistics = NA

\* The yearly files _save_clean_data writes: name -> year.
YearFiles(df) ==
    LET years == Range(GroupValues(df, "Year_of_statistics"))
    IN  {<<FileName(NumToStr(y, YearIsFloat(df))), y>> : y \in years}

\* The Data folder after _save_clean_data(df) at time t: every yearly file and
\* the alltime file are overwritten, every other file is left as it is.
_save_clean_data(fs, df, t) ==
    LET yearly  == YearFiles(df)
        written == {yf[1] : yf \in yearly} \cup {AlltimeFile}
        Rows(n) == IF n = AlltimeFile THEN df
                   ELSE LET y == (CHOOSE yf \in yearly : yf[1] = n)[2]
                        IN  SelectSeq(df, LAMBDA r : r.Year_of_statistics = y)
    IN  [n \in DOMAIN fs \cup written |->
            IF n \in written THEN [rows |-> to_csv(Rows(n)), mtime |-> t]
            ELSE fs[n]]

-----------------------------------------------------------------------------
(* DataManager.pull_data, filter_data and _set_unique_values               *)

\* The attributes of the pandas module the code looks up.
PandasNames == {"DataFrame", "read_csv", "concat", "merge", "to_datetime"}

\* pull_data returns [value, raised, printed].
pull_data(fs, year) ==
    LET file_path == FileName(Lower(year))
    IN  IF file_path \in DOMAIN fs
        THEN [value |-> read_csv(fs[file_path].rows), raised |-> "none",
              printed |-> <<>>]
        ELSE [value |-> <<>>,
              raised |-> IF "Dataframe" \in PandasNames THEN "none"
                         ELSE "AttributeError",
              printed |-> <<<<"No data found for year", year>>>>]

PseudoProvinces == {"Netherlands", "All provinces"}

\* A filter that hands back what pull_data read, whatever the province.
filter_data_unfiltered(fs, year, province) == pull_data(fs, Lower(year))

filter_data(fs, year, province) ==
    LET pulled == pull_data(fs, Lower(year))
    IN  IF pulled.raised # "none" \/ province \in PseudoProvinces THEN pulled
        ELSE [pulled EXCEPT
                 !.value = SelectSeq(@, LAMBDA r : r.Province = province)]

Alltime == <<"A", "l", "l", "t", "i", "m", "e">>

\* The order of characters in year texts.
CharOrd == <<".", "0", "1", "2", "3", "4", "5", "6", "7", "8", "9">>

StrOrd(str) ==
    [i \in 1..Len(str) |-> CHOOSE n \in 1..Len(CharOrd) : CharOrd[n] = str[i]]

_get_unique_year_values(data) ==
    LET texts == {NumToStr(data[i].Year_of_statistics, YearIsFloat(data)) :
                     i \in {j \in 1..Len(data) : data[j].Year_of_statistics # NA}}
    IN  <<Alltime>> \o SortPairs({<<StrOrd(x), x>> : x \in texts})

_get_unique_province_values(data) ==
    <<"Netherlands", "All provinces">> \o GroupValues(data, "Province")

-----------------------------------------------------------------------------
(* DataManager.__init__, _refresh_covid_data, _check_internet_connection   *)

MAX_DAYS_DATA_OUTDATED == 7

\* Lines 48-52: the file exists and file_age < timedelta(days=7).
IsUpToDate(fs, t) ==
    /\ AlltimeFile \in DOMAIN fs
    /\ t - fs[AlltimeFile].mtime < MAX_DAYS_DATA_OUTDATED

\* A probe that reports success whatever the socket did.
_check_internet_connection_always(connected) == TRUE

\* try: socket.create_connection(...) -> True; except OSError -> False.
_check_internet_connection(connected) == connected

-----------------------------------------------------------------------------
(* The life of the Data folder and of the DataManagers built on it.        *)

MaxTime == 8

MaxFileRows == 1

\* The listing behind each of the four DATA_URLS entries (lines 10-25). The
\* current files grow by appending; a download delivers the rows published so
\* far, at most MaxFileRows of them.
LifeCaseRows ==
    <<  <<[CaseRow("Utrecht", "GM0344", <<2021, 3, 1>>, "Utrecht", 5, 9999)
              EXCEPT !.Security_region_code = "VR09",
                     !.Security_region_name = "Utrecht",
                     !.Municipal_health_service = "GGD Utrecht"],
          CaseRow("Rotterdam", "GM0599", NaT, "Zuid-Holland", 2, 0)>>,
        <<CaseRow("Rotterdam", "GM0599", <<2020, 12, 31>>, "Zuid-Holland", 3, 1),
          CaseRow("Rotterdam", "GM0599", <<2021, 3, 1>>, "Zuid-Holland", 1, 0)>> >>

LifeHospRows ==
    <<  <<HospRow("Rotterdam", "GM0599", <<2020, 12, 31>>, 2),
          HospRow("Utrecht", "GM0344", <<2021, 3, 1>>, 1)>>,
        <<HospRow("Rotterdam", "GM0599", <<2020, 12, 31>>, 2)>> >>

Published(listing) ==
    {SubSeq(listing, 1, k) :
        k \in {n \in 0..MaxFileRows : n <= Len(listing)}}

\* The source tables a download can deliver: two files per data type, read
\* and concatenated in the order of the URL list (lines 84-88).
SourceTables ==
    {<<c1 \o c2, h1 \o h2>> :
        c1 \in Published(LifeCaseRows[1]),
        c2 \in Published(LifeCaseRows[2]),
        h1 \in Published(LifeHospRows[1]),
        h2 \in Published(LifeHospRows[2])}

\* Lines 72-78: the merged table of a pair of source tables.
MergedFromSources(src) ==
    _merge_data(_clean_case_data(src[1]), _clean_hospital_data(src[2]))

YearArgs == {Alltime, IntToStr(2020), IntToStr(2021), IntToStr(2099)}

ProvinceArgs == {"Netherlands", "All provinces", "Utrecht", "Zuid-Holland"}

Init ==
    /\ pc = "idle"
    /\ err = "none"
    /\ raw_case_data = <<>>
    /\ clean_case_data = <<>>
    /\ raw_hospital_data = <<>>
    /\ full_dataset = <<>>
    /\ clean_full_dataset = <<>>
    /\ ns_resolution \in BOOLEAN
    /\ QueryIdle /\ PlotIdle
    /\ now = 0
    /\ net_up \in BOOLEAN
    /\ files = <<>>
    /\ probe = "none"
    /\ downloads = 0
    /\ writes = 0
    /\ unique_ran = FALSE
    /\ fresh = "none"
    /\ unique_year_values = <<>>
    /\ unique_province_values = <<>>
    /\ query = NoQuery
    /\ printed = <<>>
    /\ result = <<>>

queryResult == <<query, printed, result>>

\* A day passes while no DataManager is being built or used.
Tick ==
    /\ pc = "idle"
    /\ now < MaxTime
    /\ now' = now + 1
    /\ UNCHANGED <<pc, err, pipeVars, queryVars, plotVars, net_up, files, probe,
                   downloads, writes, unique_ran, fresh, unique_year_values,
                   unique_province_values, queryResult>>

\* The network comes or goes, also between the probe and the downloads.
NetChange ==
    /\ pc \in {"idle", "download"}
    /\ net_up' = ~net_up
    /\ UNCHANGED <<pc, err, pipeVars, queryVars, plotVars, now, files, probe,
                   downloads, writes, unique_ran, fresh, unique_year_values,
                   unique_province_values, queryResult>>

\* DataManager(): lines 33-34, then _refresh_covid_data is entered.
NewDataManager ==
    /\ pc = "idle"
    /\ pc' = "refresh"
    /\ err' = "none"
    /\ unique_year_values' = <<>>
    /\ unique_province_values' = <<>>
    /\ probe' = "none"
    /\ downloads' = 0
    /\ writes' = 0
    /\ unique_ran' = FALSE
    /\ fresh' = "none"
    /\ UNCHANGED <<pipeVars, queryVars, plotVars, now, net_up, files,
                   queryResult>>

\* _refresh_covid_data, lines 45-52: return when the data is up to date.
RefreshCovidData ==
    /\ pc = "refresh"
    /\ IF IsUpToDate(files, now)
       THEN fresh' = "fresh" /\ pc' = "set_unique"
       ELSE fresh' = "stale" /\ pc' = "probe"
    /\ UNCHANGED <<err, pipeVars, queryVars, plotVars, now, net_up, files, probe,
                   downloads, writes, unique_ran, unique_year_values,
                   unique_province_values, queryResult>>

\* Lines 55-58: the probe; ConnectionError leaves __init__ when it fails.
CheckInternetConnection ==
    /\ pc = "probe"
    /\ probe' = IF net_up THEN "ok" ELSE "failed"
    /\ IF _check_internet_connection(net_up)
       THEN pc' = "download" /\ err' = "none"
       ELSE pc' = "idle" /\ err' = "ConnectionError"
    /\ UNCHANGED <<pipeVars, queryVars, plotVars, now, net_up, files, downloads,
                   writes, unique_ran, fresh, unique_year_values,
                   unique_province_values, queryResult>>

\* _read_and_save_data_from_web: two source files per data type are read and
\* concatenated, the case table repaired, the tables merged and normalized,
\* the result saved. An exception of a step leaves __init__.
ReadAndSaveDataFromWeb ==
    /\ pc = "download"
    /\ IF ~net_up
       THEN /\ downloads' = downloads + 1
            /\ err' = "URLError"
            /\ pc' = "idle"
            /\ UNCHANGED <<clean_full_dataset, files, writes>>
       ELSE \E src \in SourceTables :
               LET merged == MergedFromSources(src)
                   e == MergedDateError(merged, ns_resolution)
               IN  /\ downloads' = downloads + 4
                   /\ err' = e
                   /\ IF e = "none"
                      THEN /\ clean_full_dataset' = _clean_merged_data(merged)
                           /\ files' = _save_clean_data(files,
                                           clean_full_dataset', now)
                           /\ writes' = writes +
                                 Cardinality(YearFiles(clean_full_dataset')) + 1
                           /\ pc' = "set_unique"
                      ELSE /\ pc' = "idle"
                           /\ UNCHANGED <<clean_full_dataset, files, writes>>
    /\ UNCHANGED <<raw_case_data, clean_case_data, raw_hospital_data,
                   full_dataset, ns_resolution, queryVars, plotVars, now, net_up,
                   probe, unique_ran, fresh, unique_year_values,
                   unique_province_values, queryResult>>

\* _set_unique_values: the alltime file is pulled and the two lists are set.
SetUniqueValues ==
    /\ pc = "set_unique"
    /\ unique_ran' = TRUE
    /\ LET data == pull_data(files, Alltime)
       IN  IF data.raised = "none"
           THEN /\ unique_province_values' =
                      _get_unique_province_values(data.value)
                /\ unique_year_values' = _get_unique_year_values(data.value)
                /\ pc' = "ready"
                /\ err' = "none"
           ELSE /\ pc' = "idle"
                /\ err' = data.raised
                /\ UNCHANGED <<unique_year_values, unique_province_values>>
    /\ UNCHANGED <<pipeVars, queryVars, plotVars, now, net_up, files, probe,
                   downloads, writes, fresh, queryResult>>

\* data_manager.pull_data(year)
PullData ==
    /\ pc = "ready"
    /\ \E year \in YearArgs :
          LET r == pull_data(files, year)
          IN  /\ query' = [op |-> "pull_data", year |-> year,
                           province |-> "none"]
              /\ result' = r.value
              /\ printed' = r.printed
              /\ err' = r.raised
    /\ UNCHANGED <<pc, pipeVars, queryVars, plotVars, now, net_up, files, probe,
                   downloads, writes, unique_ran, fresh, unique_year_values,
                   unique_province_values>>

\* data_manager.filter_data(year, province)
FilterData ==
    /\ pc = "ready"
    /\ \E year \in YearArgs, province \in ProvinceArgs :
          LET r == filter_data(files, year, province)
          IN  /\ query' = [op |-> "filter_data", year |-> year,
                           province |-> province]
              /\ result' = r.value
              /\ printed' = r.printed
              /\ err' = r.raised
    /\ UNCHANGED <<pc, pipeVars, queryVars, plotVars, now, net_up, files, probe,
                   downloads, writes, unique_ran, fresh, unique_year_values,
                   unique_province_values>>

\* The session ends; the files stay.
Close ==
    /\ pc = "ready"
    /\ pc' = "idle"
    /\ err' = "none"
    /\ query' = NoQuery
    /\ printed' = <<>>
    /\ result' = <<>>
    /\ UNCHANGED <<pipeVars, queryVars, plotVars, now, net_up, files, probe,
                   downloads, writes, unique_ran, fresh, unique_year_values,
                   unique_province_values>>

Next ==
    \/ Tick
    \/ NetChange
    \/ NewDataManager
    \/ RefreshCovidData
    \/ CheckInternetConnection
    \/ ReadAndSaveDataFromWeb
    \/ SetUniqueValues
    \/ Close

Spec == Init /\ [][Next]_vars

\* The age of the alltime file, in days.
AlltimeAge == now - files[AlltimeFile].mtime

\* Stale as the threshold is documented: missing, or older than 7 days.
OlderThanThreshold ==
    AlltimeFile \notin DOMAIN files \/ AlltimeAge > MAX_DAYS_DATA_OUTDATED

\* C6: _refresh_covid_data treats the data as stale exactly when
\* covid_alltime.csv is missing or its age strictly exceeds 7 days (an age of
\* exactly 7 days is fresh); when fresh it returns without probing the
\* network, downloading or writing a file.
C6_StaleIffOlderThanSevenDays ==
    /\ (pc = "probe" /\ fresh = "stale") => OlderThanThreshold
    /\ (pc \in {"set_unique", "ready"} /\ fresh = "fresh") =>
          /\ ~OlderThanThreshold
          /\ probe = "none"
          /\ downloads = 0
          /\ writes = 0

\* The decision the code takes: stale exactly when the file is missing or at
\* least 7 days old, and nothing is probed, read or written when fresh.
RefreshBehaviour ==
    /\ (pc = "probe" /\ fresh = "stale") =>
          (AlltimeFile \notin DOMAIN files
              \/ AlltimeAge >= MAX_DAYS_DATA_OUTDATED)
    /\ (pc \in {"set_unique", "ready"} /\ fresh = "fresh") =>
          /\ AlltimeFile \in DOMAIN files
          /\ AlltimeAge < MAX_DAYS_DATA_OUTDATED
          /\ probe = "none"
          /\ downloads = 0
          /\ writes = 0

\* While __init__ runs on data found stale: nothing is downloaded or written
\* before the probe succeeded, and after a failed probe ConnectionError has
\* left __init__ with nothing downloaded, nothing written, nothing set.
ProbeGuardsDownload ==
    /\ pc = "download" => (probe = "ok" /\ fresh = "stale")
    /\ downloads > 0 => (probe = "ok" /\ fresh = "stale")
    /\ writes > 0 => probe = "ok"
    /\ probe = "failed" =>
          /\ pc = "idle"
          /\ err = "ConnectionError"
          /\ downloads = 0
          /\ writes = 0
          /\ ~unique_ran
          /\ unique_year_values = <<>>
          /\ unique_province_values = <<>>

\* A step that ends or follows a failed probe leaves every persisted file as
\* it is, and so does every step taken before a probe succeeded.
FilesKeptUnlessProbed == (probe' # "ok") => (files' = files)

\* C7: when the data is stale a successful probe precedes every download; when
\* the probe fails, ConnectionError is raised, nothing is downloaded, no
\* persisted file is created or changed and _set_unique_values never runs.
C7_ProbePrecedesDownload == []ProbeGuardsDownload /\ [][FilesKeptUnlessProbed]_vars

\* The probe failed on stale data that was on disk: ConnectionError left
\* __init__ and the old files are still there.
C7_ProbeFailedWitness ==
    /\ probe = "failed"
    /\ fresh = "stale"
    /\ err = "ConnectionError"
    /\ AlltimeFile \in DOMAIN files
    /\ AlltimeAge >= MAX_DAYS_DATA_OUTDATED

\* A refresh went through: probe, downloads, files written, lists set.
RefreshedWitness ==
    /\ pc = "ready"
    /\ probe = "ok"
    /\ downloads > 0
    /\ writes > 0
    /\ Len(unique_year_values) > 1

-----------------------------------------------------------------------------
(* The query layer on a Data folder that completed refreshes left behind.  *)

\* The canonical tables the pipeline produces from the source tables.
CanonicalTables ==
    {_clean_merged_data(MergedFromSources(src)) :
        src \in {x \in SourceTables :
                    \A ns \in BOOLEAN :
                        MergedDateError(MergedFromSources(x), ns) = "none"}}

\* The Data folder after two completed refreshes.
QueryFolders ==
    {_save_clean_data(_save_clean_data(<<>>, t1, 0), t2, MAX_DAYS_DATA_OUTDATED) :
        t1 \in CanonicalTables, t2 \in CanonicalTables}

InitQuery ==
    /\ pc = "ready"
    /\ err = "none"
    /\ raw_case_data = <<>>
    /\ clean_case_data = <<>>
    /\ raw_hospital_data = <<>>
    /\ full_dataset = <<>>
    /\ clean_full_dataset = <<>>
    /\ ns_resolution = TRUE
    /\ QueryIdle /\ PlotIdle
    /\ now = MAX_DAYS_DATA_OUTDATED
    /\ net_up = TRUE
    /\ files \in QueryFolders
    /\ probe = "none"
    /\ downloads = 0
    /\ writes = 0
    /\ unique_ran = FALSE
    /\ fresh = "none"
    /\ unique_year_values = <<>>
    /\ unique_province_values = <<>>
    /\ query = NoQuery
    /\ printed = <<>>
    /\ result = <<>>

NextQuery == PullData \/ FilterData

SpecQuery == InitQuery /\ [][NextQuery]_vars

\* The year of the last query has no persisted file.
QueriedYearMissing ==
    query.op # "none" /\ FileName(Lower(query.year)) \notin DOMAIN files

\* C5: when the requested year has no persisted file, pull_data and
\* filter_data (for any province value) return an empty result and print a
\* diagnostic; no exception reaches the caller.
C5_MissingYearReturnsEmpty ==
    QueriedYearMissing =>
        /\ err = "none"
        /\ result = <<>>
        /\ printed # <<>>

\* What a query does: the diagnostic is printed for a missing year and
\* AttributeError leaves the call; a year that has a file raises nothing.
QueryBehaviour ==
    query.op # "none" =>
        IF QueriedYearMissing
        THEN err = "AttributeError" /\ printed # <<>>
        ELSE /\ err = "none" /\ printed = <<>>
             /\ \A i \in 1..Len(result) :
                   \/ query.op = "pull_data"
                   \/ query.province \in PseudoProvinces
                   \/ result[i].Province = query.province

-----------------------------------------------------------------------------
(* filter_data on a year that has a persisted file.                        *)

\* The file a query addresses and the table pd.read_csv makes of it.
QueriedFile == FileName(Lower(query.year))

FilteredYearPresent ==
    query.op = "filter_data" /\ QueriedFile \in DOMAIN files

QueriedRows == read_csv(files[QueriedFile].rows)

\* The year a year text names: the digits before a decimal point.
RECURSIVE WholePart(_)
WholePart(str) ==
    IF str = <<>> \/ str[1] = "." THEN <<>>
    ELSE <<str[1]>> \o WholePart(Tail(str))

\* C11: for a year that has a persisted file, filter_data returns, in file
\* order, exactly the rows of that file whose Province equals a real province
\* name, and every row of the file for 'Netherlands' and 'All provinces'; the
\* file is found whatever the case of the year text; from a yearly file every
\* returned row has the requested Year_of_statistics.
C11_FilterReturnsFileRows ==
    FilteredYearPresent =>
        /\ err = "none"
        /\ printed = <<>>
        /\ IF query.province \in PseudoProvinces
           THEN result = QueriedRows
           ELSE \E idx \in SUBSET (1..Len(QueriedRows)) :
                   /\ idx = {i \in 1..Len(QueriedRows) :
                                QueriedRows[i].Province = query.province}
                   /\ Len(result) = Cardinality(idx)
                   /\ \A k \in 1..Len(result) :
                         \E i \in idx :
                            /\ result[k] = QueriedRows[i]
                            /\ Cardinality({j \in idx : j < i}) = k - 1
        /\ QueriedFile # AlltimeFile =>
              \A k \in 1..Len(result) :
                  result[k].Year_of_statistics =
                      StrToInt(WholePart(query.year))

\* A real province was asked of a file that also holds rows of another one.
C11_ProvinceFilteredWitness ==
    /\ FilteredYearPresent
    /\ query.province \notin PseudoProvinces
    /\ query.year # Lower(query.year)
    /\ Len(result) >= 1
    /\ Len(result) < Len(QueriedRows)

-----------------------------------------------------------------------------
(* The Data folder after completed refresh cycles.                         *)

\* A refresh has completed at some time: the alltime file is there, and
\* clean_full_dataset is the canonical table of the latest completed refresh.
Persisted == AlltimeFile \in DOMAIN files /\ pc \in {"idle", "ready"}

RowsOfYear(df, y) == SelectSeq(df, LAMBDA r : r.Year_of_statistics = y)

YearsOf(df) == {df[i].Year_of_statistics : i \in 1..Len(df)}

YearlyFiles == DOMAIN files \ {AlltimeFile}

RECURSIVE TotalRows(_)
TotalRows(names) ==
    IF names = {} THEN 0
    ELSE LET n == CHOOSE x \in names : TRUE
         IN  Len(files[n].rows) + TotalRows(names \ {n})

\* C12: after any sequence of completed refreshes the folder reflects only
\* the latest canonical table: the alltime file holds every row of it, each
\* distinct Year_of_statistics value has one file, named by that year, holding
\* exactly the table's rows of that year, there is no other yearly file, and
\* the yearly files together hold every alltime row exactly once.
C12_FilesReflectLatestTable ==
    Persisted =>
        /\ files[AlltimeFile].rows = to_csv(clean_full_dataset)
        /\ \A y \in YearsOf(clean_full_dataset) :
              /\ y # NA
              /\ FileName(IntToStr(y)) \in YearlyFiles
              /\ files[FileName(IntToStr(y))].rows =
                    to_csv(RowsOfYear(clean_full_dataset, y))
        /\ \A n \in YearlyFiles :
              \E y \in YearsOf(clean_full_dataset) :
                  y # NA /\ n = FileName(IntToStr(y))
        /\ TotalRows(YearlyFiles) = Len(files[AlltimeFile].rows)

\* What a save does guarantee: the alltime file holds the latest table, and
\* every year present in it has a file, named as the year prints, holding
\* that table's rows of the year; files of other names are left as they were.
SaveBehaviour ==
    Persisted =>
        /\ files[AlltimeFile].rows = to_csv(clean_full_dataset)
        /\ \A y \in YearsOf(clean_full_dataset) \ {NA} :
              LET n == FileName(NumToStr(y, YearIsFloat(clean_full_dataset)))
              IN  /\ n \in YearlyFiles
                  /\ files[n].rows = to_csv(RowsOfYear(clean_full_dataset, y))
                  /\ files[n].mtime = files[AlltimeFile].mtime
        /\ \A n \in YearlyFiles : files[n].mtime <= files[AlltimeFile].mtime

-----------------------------------------------------------------------------
(* _read_and_save_data_from_web on raw case and hospital tables.            *)

PipeCaseRows ==
    {CaseRow(m[1], m[2], d, "Zuid-Holland", 3, 1) :
        m \in {<<"Brielle", "GM0501">>, <<"Hellevoetsluis", "GM0530">>,
               <<"Rotterdam", "GM0599">>},
        d \in CleanDates}

PipeHospRows ==
    {HospRow(m[1], m[2], d, 2) :
        m \in {<<"Rotterdam", "GM0599">>, <<"Voorne aan zee", "GM1992">>},
        d \in CleanDates}

InitPipe ==
    /\ pc = "download"
    /\ raw_case_data \in SeqsUpTo(PipeCaseRows, MaxCaseRows)
    /\ raw_hospital_data \in SeqsUpTo(PipeHospRows, MaxHospRows)
    /\ clean_case_data = <<>>
    /\ full_dataset = <<>>
    /\ clean_full_dataset = <<>>
    /\ ns_resolution \in BOOLEAN
    /\ err = "none"
    /\ QueryIdle /\ PlotIdle /\ LifeIdle

\* Lines 72-81 on the two concatenated tables: clean, merge (the case table
\* is renamed in place), normalize (the merged table is changed in place),
\* save.
ReadAndSaveData ==
    /\ pc = "download"
    /\ clean_case_data' = RenamedCase(_clean_case_data(raw_case_data))
    /\ clean_full_dataset' =
          _clean_merged_data(
              _merge_data(_clean_case_data(raw_case_data),
                          _clean_hospital_data(raw_hospital_data)))
    /\ full_dataset' = clean_full_dataset'
    /\ files' = _save_clean_data(files, clean_full_dataset', now)
    /\ writes' = writes + Cardinality(YearFiles(clean_full_dataset')) + 1
    /\ downloads' = downloads + 4
    /\ pc' = "set_unique"
    /\ UNCHANGED <<err, raw_case_data, raw_hospital_data, ns_resolution,
                   queryVars, plotVars, now, net_up, probe, unique_ran, fresh,
                   unique_year_values, unique_province_values, queryResult>>

NextPipe == ReadAndSaveData

SpecPipe == InitPipe /\ [][NextPipe]_vars

Saved == pc = "set_unique"

\* The municipality a raw case row is counted under.
CanonicalCode(r) ==
    IF IsOld(r) THEN "GM1992" ELSE r.Municipality_code

RawPairs ==
    {<<DaysFromCivil(raw_case_data[i].Date_of_publication[1],
                     raw_case_data[i].Date_of_publication[2],
                     raw_case_data[i].Date_of_publication[3]),
       CanonicalCode(raw_case_data[i])>> : i \in 1..Len(raw_case_data)}

RecordsOf(pair) ==
    {i \in 1..Len(clean_full_dataset) :
        /\ clean_full_dataset[i].Date_of_statistics = pair[1]
        /\ clean_full_dataset[i].Municipality_code = pair[2]}

\* C13: in the canonical table the refresh pipeline produces there is exactly
\* one record per (Date_of_statistics, municipality) pair, for every pair of
\* raw case and hospital tables.
C13_OneRecordPerDateMunicipality ==
    Saved =>
        /\ \A pair \in RawPairs : Cardinality(RecordsOf(pair)) = 1
        /\ Len(clean_full_dataset) = Cardinality(RawPairs)

\* What the pipeline does guarantee: a pair has as many records as it has raw
\* case rows outside the legacy municipalities, plus one if it has legacy
\* rows, each multiplied by the hospital rows of its key (at least once).
PipelineBehaviour ==
    Saved =>
        \A pair \in RawPairs :
            LET rawOf == {i \in 1..Len(raw_case_data) :
                            /\ DaysFromCivil(
                                  raw_case_data[i].Date_of_publication[1],
                                  raw_case_data[i].Date_of_publication[2],
                                  raw_case_data[i].Date_of_publication[3])
                                  = pair[1]
                            /\ CanonicalCode(raw_case_data[i]) = pair[2]}
                plain == {i \in rawOf : ~IsOld(raw_case_data[i])}
                caseRecords == Cardinality(plain)
                                 + (IF rawOf # plain THEN 1 ELSE 0)
                hosp == Cardinality(
                            {j \in 1..Len(raw_hospital_data) :
                                /\ DaysFromCivil(
                                      raw_hospital_data[j].Date_of_statistics[1],
                                      raw_hospital_data[j].Date_of_statistics[2],
                                      raw_hospital_data[j].Date_of_statistics[3])
                                      = pair[1]
                                /\ raw_hospital_data[j].Municipality_code = pair[2]})
            IN  Cardinality(RecordsOf(pair)) =
                    caseRecords * (IF hosp = 0 THEN 1 ELSE hosp)

-----------------------------------------------------------------------------
(* DataManager.sort_data, called by PlotTemplate.sort_data.                *)

\* The tables that hold the rows of df in some order.
RowOrders(df) ==
    {[i \in 1..Len(df) |-> df[f[i]]] :
        f \in {g \in [1..Len(df) -> 1..Len(df)] :
                  \A a, b \in 1..Len(df) : a # b => g[a] # g[b]}}

InOrder(df, by, ascending) ==
    \A i \in 1..(Len(df) - 1) :
        IF ascending THEN df[i][by] <= df[i + 1][by]
        ELSE df[i][by] >= df[i + 1][by]

\* DataFrame.sort_values(by=..., ascending=..., inplace=True) with the default
\* kind='quicksort': the rows in the order of the column; the sort is not
\* stable, the order of rows with equal values is whatever the numpy build
\* produces.
sort_values(df, by, ascending) ==
    {t \in RowOrders(df) : InOrder(t, by, ascending)}

\* sort_data: the tables aggregated_df can be after the call.
sort_data(df, sort_by, sort_order) ==
    IF sort_order = "Ascending" THEN sort_values(df, sort_by, TRUE)
    ELSE sort_values(df, sort_by, FALSE)

MaxSortRows == 2

MaxSorts == 2

SortProvinces == <<"Friesland", "Utrecht", "Zuid-Holland">>

SortMetrics == <<"Total_reported", "Deceased">>

SortOrders == {"Ascending", "Descending", "none"}

\* The tables aggregate_data returns for the dimension Province: one row per
\* province, in the order of the province names.
SortTables ==
    {t \in SeqsUpTo([Province : Range(SortProvinces),
                     Total_reported : {1, 2}, Deceased : {0, 1}], MaxSortRows) :
        \A i \in 1..(Len(t) - 1) :
            LexLess(ColumnOrd("Province", t[i].Province),
                    ColumnOrd("Province", t[i + 1].Province))}

InitSort ==
    /\ pc = "sort"
    /\ err = "none"
    /\ raw_case_data = <<>>
    /\ clean_case_data = <<>>
    /\ raw_hospital_data = <<>>
    /\ full_dataset = <<>>
    /\ clean_full_dataset = <<>>
    /\ ns_resolution = TRUE
    /\ filtered_df = <<>>
    /\ agg_columns = SortMetrics
    /\ agg_dimension = "Province"
    /\ aggregated_df \in SortTables
    /\ widget_values \in [sort_by : Range(SortMetrics), sort_order : SortOrders]
    /\ calls = <<>>
    /\ GuiIdle
    /\ LifeIdle

\* PlotTemplate.sort_data: the widget values are handed to
\* DataManager.sort_data, which sorts aggregated_df in place. calls keeps the
\* table each application left.
SortData ==
    /\ pc = "sort"
    /\ Len(calls) < MaxSorts
    /\ aggregated_df' \in sort_data(aggregated_df, widget_values.sort_by,
                                    widget_values.sort_order)
    /\ calls' = Append(calls, aggregated_df')
    /\ UNCHANGED <<pc, err, pipeVars, filtered_df, agg_columns, agg_dimension,
                   widget_values, guiVars, lifeVars>>

NextSort == SortData

SpecSort == InitSort /\ [][NextSort]_vars

SortColumnInOrder ==
    InOrder(aggregated_df, widget_values.sort_by,
            widget_values.sort_order = "Ascending")

\* C14: sort_data is idempotent, also for tables with equal values in the
\* sort column: a second application with the same sort_by and sort_order
\* leaves the table as the first application left it; after a sort the sort
\* column is non-decreasing for 'Ascending' and non-increasing otherwise.
C14_SortIsIdempotent ==
    /\ Len(calls) >= 1 => SortColumnInOrder
    /\ \A k \in 2..Len(calls) : calls[k] = calls[k - 1]

\* What sort_data does guarantee: the rows are kept, the sort column is in
\* order, and a table without equal values in the sort column is left as it
\* is by a second application.
SortBehaviour ==
    Len(calls) >= 1 =>
        /\ SortColumnInOrder
        /\ \A k \in 1..Len(calls) : calls[k] \in RowOrders(calls[1])
        /\ (\A i, j \in 1..Len(aggregated_df) :
               i # j => aggregated_df[i][widget_values.sort_by]
                           # aggregated_df[j][widget_values.sort_by])
              => \A k \in 2..Len(calls) : calls[k] = calls[k - 1]

-----------------------------------------------------------------------------
(* GUI: the plot buttons, the tracked observers and the metric checkboxes. *)
(* A GUI state g is a record of active_plot, active_observers, observers,  *)
(* checks and widget_values (one dictionary per plot object).              *)

MetricChecks ==
    {"total_reported_check", "hospital_admission_check", "deceased_check"}

\* activate_bar_plot_state_checks: key -> <<widget, handler>>.
BarObservers ==
    [bar_municipality_check_province |->
        <<"province_dropdown", "update_bar_municipality_checkbox_state">>,
     bar_municipality_check_month |->
        <<"month_check", "update_bar_municipality_checkbox_state">>,
     bar_municipality_month_check_month |->
        <<"month_check", "update_bar_municipality_month_checkbox_state">>,
     bar_municipality_month_check_municipality |->
        <<"municipality_check", "update_bar_municipality_month_checkbox_state">>,
     bar_sort_data_check_month |->
        <<"month_check", "update_bar_sort_data_checkbox_state">>]

\* Line observers that leave the deceased checkbox without its handler.
LineObserversTwoBoxes ==
    [line_selected_metric_check_total_reported |->
        <<"total_reported_check", "update_line_selected_metric_checkbox_state">>,
     line_selected_metric_check_hospital_admission |->
        <<"hospital_admission_check",
          "update_line_selected_metric_checkbox_state">>]

\* activate_line_plot_state_checks: key -> <<widget, handler>>.
LineObservers ==
    [line_selected_metric_check_total_reported |->
        <<"total_reported_check", "update_line_selected_metric_checkbox_state">>,
     line_selected_metric_check_hospital_admission |->
        <<"hospital_admission_check",
          "update_line_selected_metric_checkbox_state">>,
     line_selected_metric_check_deceased |->
        <<"deceased_check", "update_line_selected_metric_checkbox_state">>]

BarKeys == DOMAIN BarObservers

LineKeys == DOMAIN LineObservers

\* setup_observers: update_plot on every widget, wired first.
SetupObservers ==
    {<<w, "update_plot">> :
        w \in MetricChecks \cup
              {"year_dropdown", "province_dropdown", "municipality_check",
               "month_check", "sort_by_dropdown", "sort_order_dropdown",
               "sort_data_check"}}

\* observe() adds a handler that is not yet in the widget's list; the keys
\* are added to the set.
Activate(g, wires) ==
    [g EXCEPT !.observers = @ \cup {wires[k] : k \in DOMAIN wires},
              !.active_observers = @ \cup DOMAIN wires]

\* Each key that is in the set: unobserve() its handler, remove the key.
Deactivate(g, wires) ==
    LET active == DOMAIN wires \cap g.active_observers
    IN  [g EXCEPT !.observers = @ \ {wires[k] : k \in active},
                  !.active_observers = @ \ active]

activate_bar_plot_state_checks(g) == Activate(g, BarObservers)

\* A deactivation that forgets the keys and handlers it should remove.
deactivate_bar_plot_state_checks_kept(g) == g

deactivate_bar_plot_state_checks(g) == Deactivate(g, BarObservers)

activate_line_plot_state_checks(g) == Activate(g, LineObservers)

deactivate_line_plot_state_checks(g) == Deactivate(g, LineObservers)

\* show_bar_plot / show_line_plot. The layout changes touch no value and no
\* observer; the plot is drawn inside `with self.plot_output`, which shows an
\* exception of plot() in the output widget and suppresses it.
show_bar_plot(g) ==
    activate_bar_plot_state_checks(
        deactivate_line_plot_state_checks([g EXCEPT !.active_plot = "bar"]))

show_line_plot(g) ==
    activate_line_plot_state_checks(
        deactivate_bar_plot_state_checks([g EXCEPT !.active_plot = "line"]))

\* set_plot_widget_values, the metric entries of the dictionary.
MetricValues(c) ==
    [total_reported |-> c["total_reported_check"],
     hospital_admission |-> c["hospital_admission_check"],
     deceased |-> c["deceased_check"]]

\* update_plot: the active plot gets the current widget values and is drawn.
update_plot(g) ==
    [g EXCEPT !.widget_values[g.active_plot] = MetricValues(g.checks)]

RECURSIVE SetValue(_, _, _)
RECURSIVE update_line_selected_metric_checkbox_state(_)

\* Lines 318-330. Each assignment notifies the observers of its checkbox
\* before the next statement runs.
update_line_selected_metric_checkbox_state(g) ==
    IF g.checks["total_reported_check"]
    THEN SetValue(SetValue(g, "hospital_admission_check", FALSE),
                  "deceased_check", FALSE)
    ELSE IF g.checks["hospital_admission_check"]
    THEN SetValue(SetValue(g, "total_reported_check", FALSE),
                  "deceased_check", FALSE)
    ELSE IF g.checks["deceased_check"]
    THEN SetValue(SetValue(g, "total_reported_check", FALSE),
                  "hospital_admission_check", FALSE)
    ELSE g

\* checkbox.value = v: nothing happens when the value is the same; otherwise
\* the value is stored and the observers run in the order they were wired:
\* update_plot, then the line handler if it is wired on this checkbox.
SetValue(g, w, v) ==
    IF g.checks[w] = v THEN g
    ELSE LET stored  == [g EXCEPT !.checks[w] = v]
             plotted == IF <<w, "update_plot">> \in stored.observers
                        THEN update_plot(stored) ELSE stored
         IN  IF <<w, "update_line_selected_metric_checkbox_state">>
                    \in plotted.observers
             THEN update_line_selected_metric_checkbox_state(plotted)
             ELSE plotted

\* GUI.__init__: lines 28-45.
Constructed ==
    LET allChecked == [w \in MetricChecks |-> TRUE]
    IN  show_bar_plot(
            [active_plot |-> "bar",
             active_observers |-> {},
             observers |-> SetupObservers,
             checks |-> allChecked,
             widget_values |-> [bar |-> MetricValues(allChecked),
                                line |-> <<>>]])

Gui ==
    [active_plot |-> active_plot, active_observers |-> active_observers,
     observers |-> observers, checks |-> checks,
     widget_values |-> widget_values]

GuiBecomes(g) ==
    /\ active_plot' = g.active_plot
    /\ active_observers' = g.active_observers
    /\ observers' = g.observers
    /\ checks' = g.checks
    /\ widget_values' = g.widget_values

Handled(owner) ==
    [owner |-> owner, active_plot |-> active_plot, checks |-> checks]

InitGui ==
    /\ pc = "gui"
    /\ err = "none"
    /\ raw_case_data = <<>>
    /\ clean_case_data = <<>>
    /\ raw_hospital_data = <<>>
    /\ full_dataset = <<>>
    /\ clean_full_dataset = <<>>
    /\ ns_resolution = TRUE
    /\ QueryIdle /\ LifeIdle
    /\ calls = <<>>
    /\ active_plot = Constructed.active_plot
    /\ active_observers = Constructed.active_observers
    /\ observers = Constructed.observers
    /\ checks = Constructed.checks
    /\ widget_values = Constructed.widget_values
    /\ event = <<>>

\* A click on the bar-plot button.
ShowBarPlot ==
    /\ pc = "gui"
    /\ GuiBecomes(show_bar_plot(Gui))
    /\ event' = <<Handled("bar_plot_button")>>
    /\ UNCHANGED <<pc, err, pipeVars, queryVars, calls, lifeVars>>

\* A click on the line-plot button.
ShowLinePlot ==
    /\ pc = "gui"
    /\ GuiBecomes(show_line_plot(Gui))
    /\ event' = <<Handled("line_plot_button")>>
    /\ UNCHANGED <<pc, err, pipeVars, queryVars, calls, lifeVars>>

\* The user ticks or unticks one of the metric checkboxes.
UserChange ==
    /\ pc = "gui"
    /\ \E w \in MetricChecks :
          /\ GuiBecomes(SetValue(Gui, w, ~checks[w]))
          /\ event' = <<Handled(w)>>
    /\ UNCHANGED <<pc, err, pipeVars, queryVars, calls, lifeVars>>

NextGui == ShowBarPlot \/ ShowLinePlot \/ UserChange

SpecGui == InitGui /\ [][NextGui]_vars

Checked == {w \in MetricChecks : checks[w]}

\* C15: in line-plot mode, after a user change to one of the three metric
\* checkboxes has been handled, nested notifications included, at most one
\* of the three is checked, whatever was checked when line mode was entered.
C15_AtMostOneMetricInLineMode ==
    (active_plot = "line" /\ event # <<>> /\ event[1].owner \in MetricChecks)
        => Cardinality(Checked) <= 1

\* In line mode the user unticked one of three ticked boxes.
C15_AllCheckedWitness ==
    /\ active_plot = "line"
    /\ event # <<>>
    /\ event[1].owner \in MetricChecks
    /\ event[1].active_plot = "line"
    /\ \A w \in MetricChecks : event[1].checks[w]
    /\ Cardinality(Checked) = 1

\* C16: after construction and after any sequence of button clicks the
\* tracked set agrees with the mode: exactly the five bar keys in bar mode,
\* exactly the three line keys in line mode, never keys of both, and a
\* handler is wired on its widget exactly when its key is in the set.
C16_ObserversAgreeWithMode ==
    /\ active_plot \in {"bar", "line"}
    /\ active_plot = "bar" => active_observers = BarKeys
    /\ active_plot = "line" => active_observers = LineKeys
    /\ ~(active_observers \cap BarKeys # {} /\ active_observers \cap LineKeys # {})
    /\ Cardinality(BarKeys) = 5 /\ Cardinality(LineKeys) = 3
    /\ \A k \in BarKeys :
          k \in active_observers <=> BarObservers[k] \in observers
    /\ \A k \in LineKeys :
          k \in active_observers <=> LineObservers[k] \in observers

\* The line button was clicked while the line plot was already active.
C16_RepeatedClickWitness ==
    /\ event # <<>>
    /\ event[1].owner = "line_plot_button"
    /\ event[1].active_plot = "line"
    /\ active_plot = "line"
    /\ active_observers = LineKeys

====
